---- MODULE Spec2Model ----
(***************************************************************************)
(* paperscraper: the PDF retrieval chain of paperscraper/pdf/pdf.py        *)
(* (save_pdf), its strategies in paperscraper/pdf/fallbacks.py and the     *)
(* key loader / streaming downloader of paperscraper/pdf/utils.py.         *)
(*                                                                         *)
(* One save_pdf call is a run of the state machine below.  pc is the       *)
(* position in the body of save_pdf; log records, in program order, every  *)
(* network request (req_.., get_.., head_..), every strategy invocation    *)
(* (fallback_.., download_pdf_to_path) and every file write (write_..).    *)
(* The outside world (what the servers answer) is drawn from small sets.   *)
(*                                                                         *)
(* Further state machines share the module: the batch driver               *)
(* save_pdf_from_dump of pdf.py (SpecDump), month_folder (SpecMonth),      *)
(* get_elife_xml_index called from several threads (SpecElife),            *)
(* fallback_wiley_api statement by statement (SpecWiley) and the probe     *)
(* pool of fallback_s3 (SpecS3), all of fallbacks.py; XRXivApi.get_papers  *)
(* of xrxiv/xrxiv_api.py (SpecXrxiv); and self_citations_paper of          *)
(* citations/self_citations.py under its retry decorator (SpecCite).       *)
(* Each specification moves its own variables and leaves the variables of  *)
(* the others at their idle values.                                        *)
(***************************************************************************)
EXTENDS Integers, Sequences, FiniteSets, TLC

VARIABLES
    pc,               \* position in save_pdf
    err,              \* class of the exception that left save_pdf, or "none"
    ret,              \* return value of save_pdf: "unset", "True", "False"
    files,            \* suffixes present at the output path: pdf, xml, json
    log,              \* requests, strategy invocations and writes, in order
    args,             \* the arguments of the call
    api_keys,         \* the key bundle once line 148-149 has run
    world,            \* what the DOI's servers answer
    is_biorxiv,       \* "biorxiv" in resolved_url.lower()
    success,          \* local variable success
    metadata_written, \* local variable metadata_written
    soup,             \* local variable soup: unset, None, tag, notag
    error,            \* what the local variable error mentions
    ELIFE_XML_INDEX,  \* module global of fallbacks.py: None, empty, built
    \* save_pdf_from_dump
    batch_pc,         \* position in save_pdf_from_dump
    papers,           \* the records load_jsonl returned
    key_to_save,      \* the argument key_to_save
    disk,             \* the artifacts in pdf_path: <<filename, suffix>>
    idx,              \* the loop variable i, counted from 1
    run,              \* number of the run over the same dump and directory
    events,           \* what the loop did with each record, in order
    \* month_folder
    month_pc,         \* position in month_folder
    resp,             \* answer of the bioRxiv details API
    folder            \* the value month_folder returned

\* The variables of one save_pdf call.
pdfVars == <<pc, err, ret, files, log, args, api_keys, world, is_biorxiv,
             success, metadata_written, soup, error, ELIFE_XML_INDEX>>

\* The variables of the runs of save_pdf_from_dump.
batchVars == <<batch_pc, papers, key_to_save, disk, idx, run, events>>

\* The variables of one month_folder call.
monthVars == <<month_pc, resp, folder>>

\* get_elife_xml_index called by the threads of one process
VARIABLES
    index_pc,   \* position of each caller in get_elife_xml_index
    xml_index,  \* the object bound to the global ELIFE_XML_INDEX, entry by entry
    tree,       \* the files the GitHub tree API lists
    item_no,    \* each caller's position in the loop over the tree items
    returned    \* the index each call returned, as the caller finds it

elifeVars == <<index_pc, xml_index, tree, item_no, returned>>

\* fallback_wiley_api, statement by statement
VARIABLES
    wiley_pc,          \* position in fallback_wiley_api
    max_attempts_arg,  \* the argument max_attempts
    wiley_attempt,     \* local variable attempt
    wiley_success,     \* local variable success
    trace,             \* requests, answers, writes and sleeps of the call, in order
    wiley_ret          \* return value: "unset", "True", "False"

wileyVars == <<wiley_pc, max_attempts_arg, wiley_attempt, wiley_success, trace, wiley_ret>>

\* the scan of fallback_s3: the main thread and the pool's worker threads
VARIABLES
    s3_pc,      \* position of the main thread in fallback_s3
    workers,    \* the argument workers
    futures,    \* state of the future of each key of meca_keys
    seen,       \* the futures as_completed has yielded
    target,     \* local variable target: 0 for None, or the key
    cancel_no,  \* position of the loop of lines 430-431 in futures
    s3_files,   \* suffixes written at the output path
    s3_ret      \* return value: "unset", "True", "False"

s3Vars == <<s3_pc, workers, futures, seen, target, cancel_no, s3_files, s3_ret>>

\* XRXivApi.get_papers with the retry_multi wrapper of call_api
VARIABLES
    xr_pc,               \* position in get_papers / call_api
    api_max_retries,     \* self.max_retries, read by retry_multi
    papers_max_retries,  \* the argument max_retries of get_papers
    pages,               \* number of pages the server has for the date range
    do_loop,             \* local variable do_loop
    cursor,              \* local variable cursor, in pages
    xr_attempt,          \* the loop variable attempt of line 127
    call_requests,       \* requests sent by the call_api call under way
    cursor_calls,        \* call_api calls made for the current cursor
    total_requests       \* requests sent since get_papers was started

xrxivVars == <<xr_pc, api_max_retries, papers_max_retries, pages, do_loop, cursor, xr_attempt, call_requests, cursor_calls, total_requests>>

\* self_citations_paper under retry_with_exponential_backoff
VARIABLES
    cite_pc,       \* position in the wrapper of retry_with_exponential_backoff
    cite_attempt,  \* the loop variable attempt of the wrapper
    tasks,         \* state of the _process_single task of each identifier
    fetches,       \* number of requests sent for each identifier
    succeeded      \* identifiers whose fetch has succeeded in some attempt

citeVars == <<cite_pc, cite_attempt, tasks, fetches, succeeded>>

vars == <<pdfVars, batchVars, monthVars, elifeVars, wileyVars, s3Vars, xrxivVars, citeVars>>

\* What the actions of one state machine leave alone: the other groups.
notPdf == <<batchVars, monthVars, elifeVars, wileyVars, s3Vars, xrxivVars, citeVars>>
notBatch == <<pdfVars, monthVars, elifeVars, wileyVars, s3Vars, xrxivVars, citeVars>>
notMonth == <<pdfVars, batchVars, elifeVars, wileyVars, s3Vars, xrxivVars, citeVars>>
notElife == <<pdfVars, batchVars, monthVars, wileyVars, s3Vars, xrxivVars, citeVars>>
notWiley == <<pdfVars, batchVars, monthVars, elifeVars, s3Vars, xrxivVars, citeVars>>
notS3 == <<pdfVars, batchVars, monthVars, elifeVars, wileyVars, xrxivVars, citeVars>>
notXrxiv == <<pdfVars, batchVars, monthVars, elifeVars, wileyVars, s3Vars, citeVars>>
notCite == <<pdfVars, batchVars, monthVars, elifeVars, wileyVars, s3Vars, xrxivVars>>

\* The idle values of each group of variables.
PdfIdle ==
    /\ pc = "idle" /\ err = "none" /\ ret = "unset" /\ files = {} /\ log = <<>>
    /\ args = "none" /\ api_keys = "none" /\ world = "none"
    /\ is_biorxiv = FALSE /\ success = FALSE /\ metadata_written = FALSE
    /\ soup = "unset" /\ error = "unset" /\ ELIFE_XML_INDEX = "None"

BatchIdle ==
    /\ batch_pc = "idle" /\ papers = <<>> /\ key_to_save = "none"
    /\ disk = {} /\ idx = 0 /\ run = 0 /\ events = <<>>

MonthIdle ==
    /\ month_pc = "idle" /\ resp = "none" /\ folder = "none"

ElifeIdle ==
    /\ index_pc = <<>> /\ xml_index = <<>> /\ tree = <<>>
    /\ item_no = <<>> /\ returned = <<>>

WileyIdle ==
    /\ wiley_pc = "idle" /\ max_attempts_arg = 0 /\ wiley_attempt = 0
    /\ wiley_success = FALSE /\ trace = <<>> /\ wiley_ret = "unset"

S3Idle ==
    /\ s3_pc = "idle" /\ workers = 0 /\ futures = <<>> /\ seen = {}
    /\ target = 0 /\ cancel_no = 0 /\ s3_files = {} /\ s3_ret = "unset"

XrxivIdle ==
    /\ xr_pc = "idle" /\ api_max_retries = 0 /\ papers_max_retries = 0
    /\ pages = 0 /\ do_loop = FALSE /\ cursor = 0 /\ xr_attempt = 0
    /\ call_requests = 0 /\ cursor_calls = 0 /\ total_requests = 0

CiteIdle ==
    /\ cite_pc = "idle" /\ cite_attempt = 0 /\ tasks = <<>>
    /\ fetches = <<>> /\ succeeded = {}

\* Every group but the group g is idle.
IdleBut(g) ==
    /\ IF g = "pdf" THEN TRUE ELSE PdfIdle
    /\ IF g = "batch" THEN TRUE ELSE BatchIdle
    /\ IF g = "month" THEN TRUE ELSE MonthIdle
    /\ IF g = "elife" THEN TRUE ELSE ElifeIdle
    /\ IF g = "wiley" THEN TRUE ELSE WileyIdle
    /\ IF g = "s3" THEN TRUE ELSE S3Idle
    /\ IF g = "xrxiv" THEN TRUE ELSE XrxivIdle
    /\ IF g = "cite" THEN TRUE ELSE CiteIdle

----------------------------------------------------------------------------
(* Key bundles.  A key is absent from the dict, present with the value     *)
(* None, or present with a string value.                                   *)

KeyNames == {"WILEY_TDM_API_TOKEN", "ELSEVIER_TDM_API_KEY",
             "AWS_ACCESS_KEY_ID", "AWS_SECRET_ACCESS_KEY"}

\* os.getenv(name): None or the value of the variable.
EnvValues == {"None", "value"}

\* What a caller can put under a key of a dict passed as api_keys.
DictValues == {"absent", "None", "value"}

\* The dicts a caller passes: any content for the two publisher keys; the
\* AWS pair is absent, complete or half present (the pair with a None value
\* is what load_api_keys produces).
DictBundles ==
    {d \in [KeyNames -> DictValues] :
        /\ d["AWS_ACCESS_KEY_ID"] # "None"
        /\ d["AWS_SECRET_ACCESS_KEY"] # "None"
        /\ (d["AWS_ACCESS_KEY_ID"] = "absent" => d["AWS_SECRET_ACCESS_KEY"] = "absent")}

\* load_api_keys: always the four names, each mapped to os.getenv(name).
load_api_keys(env) == [k \in KeyNames |-> env[k]]

\* Python truth value of a dict: non-empty.
Truthy(keys) == \E k \in KeyNames : keys[k] # "absent"

\* Python `name in api_keys`.
HasKey(keys, k) == keys[k] # "absent"

\* Python `api_keys.get(name) is None`.
GetIsNone(keys, k) == keys[k] # "value"

\* A key "has a value" in the bundle.
HasValue(keys, k) == keys[k] = "value"

----------------------------------------------------------------------------
(* Input validation, lines 135-145 of pdf.py.                              *)

MetaKinds == {"not_dict", "no_doi", "ok"}

\* The filepath: not a str, a str whose parent directory does not exist, a
\* str with the suffix .pdf, or a str with another suffix (output.txt).
PathKinds == {"not_str", "no_parent", "ok", "wrong_suffix"}

\* The validation with the parent-directory check left out.
ValidationErrorNoParentCheck(meta, path) ==
    IF meta = "not_dict" THEN "TypeError"
    ELSE IF meta = "no_doi" THEN "KeyError"
    ELSE IF path = "not_str" THEN "TypeError"
    ELSE "none"

ValidationError(meta, path) ==
    IF meta = "not_dict" THEN "TypeError"
    ELSE IF meta = "no_doi" THEN "KeyError"
    ELSE IF path = "not_str" THEN "TypeError"
    ELSE IF path = "no_parent" THEN "ValueError"
    ELSE "none"

----------------------------------------------------------------------------
(* The arguments and the world.                                            *)

\* "arxiv" in doi.lower(), and whether the identifier pattern matches.
DoiArxivKinds == {"no", "nomatch", "match"}

\* "elife" in doi.lower(), and whether doi.split("eLife.") finds the
\* case-sensitive token.
DoiElifeKinds == {"no", "lower", "exact"}

Args == [meta : MetaKinds, path : PathKinds,
         doiArxiv : DoiArxivKinds, doiChem : BOOLEAN, doiElife : DoiElifeKinds,
         save_metadata : BOOLEAN, keys_arg : {"None", "dict"}]

\* The calls that are run.  Path(filepath).with_suffix(...) replaces whatever
\* suffix the path has, so a call with another suffix than .pdf goes the way
\* of the call with .pdf; it is run for the DOIs of the direct arXiv fetch
\* and of the landing-page chain, with the keys of the environment.
\* An eLife DOI (10.7554/eLife.NNNNN) is run as it is, without an arXiv
\* identifier or "chemrxiv" in it.
ArgsOK(a) ==
    /\ a.path = "wrong_suffix"
          => (~a.doiChem /\ a.doiElife = "no" /\ a.keys_arg = "None")
    /\ a.doiElife # "no" => (~a.doiChem /\ a.doiArxiv = "no")

\* GET https://arxiv.org/pdf/{id}.pdf: a body that starts with %PDF, another
\* body, or a request that raises (transport error or HTTP error status).
ArxivKinds == {"pdf", "nonpdf", "error"}

\* GET https://doi.org/{doi}: a page with or without a usable
\* citation_pdf_url meta tag, an HTTP error status, or a transport error.
LandingKinds == {"tag", "notag", "http_error", "transport_error"}

\* What str(e) of the landing-page error mentions.
ErrorTexts == {"plain", "elife", "wiley"}

\* GET of the citation_pdf_url target.
CitKinds == {"pdf", "nonpdf", "fail"}

\* NCBI id converter and BioC endpoint: the full text as XML, no PMCID for
\* the DOI, the "[Error] : No result can be found" body, or a 200 answer
\* with another body that is not XML (an HTML error or maintenance page).
PmcKinds == {"ok", "no_pmcid", "no_result", "not_xml"}

World == [arxiv : ArxivKinds, landing : LandingKinds, errtext : ErrorTexts,
          cit : CitKinds, pmc : PmcKinds]

\* Only the combinations that differ in behaviour.
WorldOK(w) ==
    /\ (w.landing # "http_error" => w.errtext = "plain")
    /\ (w.landing # "tag" => w.cit = "fail")

\* The soup that parsing the landing page and raise_for_status leave.
SoupOf(w) == IF w.landing \in {"tag", "notag"} THEN w.landing ELSE "None"

\* The error text that the landing-page fetch of lines 248-256 leaves.
ErrorOf(w) == IF w.landing \in {"tag", "notag"} THEN "empty" ELSE w.errtext

----------------------------------------------------------------------------
(* Effects of a strategy: its result, the suffix it wrote and the          *)
(* requests it issued.                                                     *)

Eff(result, wrote, reqs) == [result |-> result, wrote |-> wrote, reqs |-> reqs]

WriteEntry(sfx) == IF sfx = "pdf" THEN <<"write_pdf">>
                   ELSE IF sfx = "xml" THEN <<"write_xml">>
                   ELSE IF sfx = "json" THEN <<"write_json">>
                   ELSE <<>>

\* How a strategy invocation ended: it returned True or False, or raised.
ResultEntry(result) == IF result = "True" THEN "ret_True"
                       ELSE IF result = "False" THEN "ret_False"
                       ELSE "raise"

\* The log entries of one strategy invocation: its name, its requests, its
\* write and how it ended.
Entries(name, e) ==
    <<name>> \o e.reqs \o WriteEntry(e.wrote) \o <<ResultEntry(e.result)>>

Written(fs, e) == IF e.wrote = "none" THEN fs ELSE fs \cup {e.wrote}

----------------------------------------------------------------------------
(* paperscraper/pdf/utils.py                                               *)

\* Whether the name `requests` is bound in the namespace of pdf/utils.py.
\* The module imports os, typing, pathlib and dotenv only, so the first
\* statement of download_pdf_to_path raises NameError.
UtilsImportsRequests == FALSE

\* download_pdf_to_path: stream the response, validate the first chunk,
\* then write it and the remaining chunks.  An error while the remaining
\* chunks are streamed leaves the file that was opened for writing.
download_pdf_to_path ==
    IF ~UtilsImportsRequests
    THEN {Eff("raise", "none", <<>>)}
    ELSE {Eff("raise", "none", <<"req_download">>),
          Eff("False", "none", <<"req_download">>),
          Eff("raise", "pdf", <<"req_download">>),
          Eff("True", "pdf", <<"req_download">>)}

----------------------------------------------------------------------------
(* paperscraper/pdf/fallbacks.py                                           *)

\* Default of the max_attempts parameter of fallback_wiley_api.
max_attempts == 2

\* The outcomes of the attempts of the retry loop from attempt number
\* `attempt` on: the loop ends at the first body that starts with %PDF or
\* when attempt reaches max_attempts.
RECURSIVE WileyAttempts(_)
WileyAttempts(attempt) ==
    IF attempt >= max_attempts THEN {<<>>}
    ELSE {<<"pdf">>} \cup
         {<<o>> \o rest : o \in {"nonpdf", "exception"},
                          rest \in WileyAttempts(attempt + 1)}

\* fallback_wiley_api: one request per attempt; the PDF of the last
\* attempt, if it is one, is written.
fallback_wiley_api ==
    {Eff(IF Len(a) > 0 /\ a[Len(a)] = "pdf" THEN "True" ELSE "False",
         IF Len(a) > 0 /\ a[Len(a)] = "pdf" THEN "pdf" ELSE "none",
         [i \in 1..Len(a) |-> "req_wiley"]) : a \in WileyAttempts(0)}

\* The suffix of the file fallback_bioc_pmc writes, as a slip would have it.
BiocSuffixPdf == "pdf"

\* The suffix of the file fallback_bioc_pmc writes (line 145).
BiocSuffix == "xml"

\* fallback_bioc_pmc: convert the DOI to a PMCID, then fetch the BioC XML;
\* every failure is caught and returns False.  The only test of the body
\* is the one for the "No result" prefix (lines 147-151), so every other
\* body of a 200 answer is written.
fallback_bioc_pmc(pmc) ==
    IF pmc \in {"ok", "not_xml"}
    THEN Eff("True", BiocSuffix, <<"req_idconv", "req_bioc">>)
    ELSE IF pmc = "no_result" THEN Eff("False", "none", <<"req_idconv", "req_bioc">>)
    ELSE Eff("False", "none", <<"req_idconv">>)

\* fallback_elsevier_api with the body written before it is parsed.
fallback_elsevier_api_write_first ==
    {Eff("False", "xml", <<"req_elsevier">>),
     Eff("True", "xml", <<"req_elsevier">>)}

\* fallback_elsevier_api: one request; a 401, another HTTP or transport
\* error and a body that is not well-formed XML all return False.
fallback_elsevier_api ==
    {Eff("False", "none", <<"req_elsevier">>),
     Eff("True", "xml", <<"req_elsevier">>)}

\* get_elife_xml_index: the cache is set to {} before the tree is fetched,
\* and raise_for_status is not guarded.
get_elife_xml_index(index) ==
    IF index = "None"
    THEN {[raised |-> TRUE, index |-> "empty", reqs |-> <<"req_github_tree">>],
          [raised |-> FALSE, index |-> "built", reqs |-> <<"req_github_tree">>]}
    ELSE {[raised |-> FALSE, index |-> index, reqs |-> <<>>]}

\* fallback_elife_xml: parse the article number, look it up in the index,
\* download the latest version.  The result carries the new cache state.
fallback_elife_xml(doiElife, index) ==
    IF doiElife # "exact"
    THEN {[eff |-> Eff("False", "none", <<>>), index |-> index]}
    ELSE UNION {
        IF g.raised
        THEN {[eff |-> Eff("raise", "none", g.reqs), index |-> g.index]}
        ELSE {[eff |-> Eff("False", "none", g.reqs), index |-> g.index]} \cup
             (IF g.index = "built"
              THEN {[eff |-> Eff("False", "none", g.reqs \o <<"req_elife_raw">>),
                     index |-> g.index],
                    [eff |-> Eff("True", "xml", g.reqs \o <<"req_elife_raw">>),
                     index |-> g.index]}
              ELSE {})
        : g \in get_elife_xml_index(index)}

\* fallback_s3: month_folder, the listing and the archive download are not
\* guarded; no archive, no match and no PDF in the archive return False.
fallback_s3 ==
    {Eff("raise", "none", <<"req_biorxiv_api">>),
     Eff("raise", "none", <<"req_biorxiv_api", "req_s3_list">>),
     Eff("False", "none", <<"req_biorxiv_api", "req_s3_list">>),
     Eff("False", "none", <<"req_biorxiv_api", "req_s3_list", "req_s3_probe">>),
     Eff("raise", "none", <<"req_biorxiv_api", "req_s3_list", "req_s3_probe", "req_s3_get">>),
     Eff("False", "none", <<"req_biorxiv_api", "req_s3_list", "req_s3_probe", "req_s3_get">>),
     Eff("True", "pdf", <<"req_biorxiv_api", "req_s3_list", "req_s3_probe", "req_s3_get">>)}

----------------------------------------------------------------------------
(* The conditions of save_pdf that select a strategy.                      *)

\* Lines 299-309: S3 only when both AWS keys are not None.
S3Gate(keys) ==
    ~(GetIsNone(keys, "AWS_ACCESS_KEY_ID") \/ GetIsNone(keys, "AWS_SECRET_ACCESS_KEY"))

\* The eLife test of line 320 made on the DOI, as lines 348 and 367 make it.
PublisherElifeByDoi(errtext, doiElife) == doiElife # "no"

\* Line 320: "elife" in error.lower().
PublisherElife(errtext, doiElife) == errtext = "elife"

\* The Wiley test of lines 322-326 without the test of the error text.
WileyOnErrorAnyText(errtext, keys) ==
    Truthy(keys) /\ HasKey(keys, "WILEY_TDM_API_TOKEN")

\* Lines 322-326: "wiley" in error.lower() and api_keys and the name is in api_keys.
WileyOnError(errtext, keys) ==
    errtext = "wiley" /\ Truthy(keys) /\ HasKey(keys, "WILEY_TDM_API_TOKEN")

\* Line 351: api_keys and "WILEY_TDM_API_TOKEN" in api_keys.
WileyAfterNonPdf(keys) == Truthy(keys) /\ HasKey(keys, "WILEY_TDM_API_TOKEN")

\* Lines 355 and 377: api_keys and "ELSEVIER_TDM_API_KEY" in api_keys.
ElsevierGate(keys) == Truthy(keys) /\ HasKey(keys, "ELSEVIER_TDM_API_KEY")

\* Lines 328-329 left out: the chain goes on after a successful fallback.
NoReturnAfterFallbacks(s) == FALSE

\* Lines 328-329: if success: return True.
ReturnAfterFallbacks(s) == s

----------------------------------------------------------------------------
(* save_pdf, one action per block of its body.                             *)

Init ==
    /\ pc = "start"
    /\ err = "none"
    /\ ret = "unset"
    /\ files = {}
    /\ log = <<>>
    /\ args \in {a \in Args : ArgsOK(a)}
    /\ api_keys = [k \in KeyNames |-> "absent"]
    /\ world \in {w \in World : WorldOK(w)}
    /\ (args.doiArxiv # "match" => world.arxiv = "error")
    /\ is_biorxiv = FALSE
    /\ success = FALSE
    /\ metadata_written = FALSE
    /\ soup = "unset"
    /\ error = "unset"
    /\ ELIFE_XML_INDEX = "None"
    /\ IdleBut("pdf")

\* Lines 135-145: the four checks, in order.
Validate ==
    /\ pc = "start"
    /\ UNCHANGED notPdf
    /\ LET e == ValidationError(args.meta, args.path) IN
         IF e # "none"
         THEN pc' = "raised" /\ err' = e
         ELSE pc' = "load_keys" /\ err' = err
    /\ UNCHANGED <<ret, files, log, args, api_keys, world, is_biorxiv, success,
                   metadata_written, soup, error, ELIFE_XML_INDEX>>

\* Lines 147-154: a dict is taken as it is, anything else goes through
\* load_api_keys.
LoadKeys ==
    /\ pc = "load_keys"
    /\ UNCHANGED notPdf
    /\ IF args.keys_arg = "dict"
       THEN \E d \in DictBundles : api_keys' = d
       ELSE \E env \in [KeyNames -> EnvValues] : api_keys' = load_api_keys(env)
    /\ pc' = "resolve"
    /\ UNCHANGED <<err, ret, files, log, args, world, is_biorxiv, success,
                   metadata_written, soup, error, ELIFE_XML_INDEX>>

\* Lines 156-172: HEAD, then GET when HEAD raised; both errors are swallowed.
Resolve ==
    /\ pc = "resolve"
    /\ UNCHANGED notPdf
    /\ \E r \in {<<"head_doi">>, <<"head_doi", "get_doi_resolve">>} :
         log' = log \o r
    /\ is_biorxiv' \in BOOLEAN
    /\ pc' = "arxiv"
    /\ UNCHANGED <<err, ret, files, args, api_keys, world, success,
                   metadata_written, soup, error, ELIFE_XML_INDEX>>

\* Line 185 without the test of the first bytes: every body is written.
ArxivAcceptsAny(body) == body # "error"

\* Line 185: r.content[:4] == b"%PDF".
ArxivAccepts(body) == body = "pdf"

\* Lines 174-206: the arXiv direct fetch.
ArxivStep ==
    /\ pc = "arxiv"
    /\ UNCHANGED notPdf
    /\ UNCHANGED <<err, args, api_keys, world, is_biorxiv, metadata_written,
                   error, ELIFE_XML_INDEX>>
    /\ IF args.doiArxiv = "no"
       THEN pc' = "chemrxiv" /\ UNCHANGED <<ret, files, log, success, soup>>
       ELSE IF args.doiArxiv = "nomatch"
       THEN /\ soup' = "None"
            /\ pc' = "chemrxiv"
            /\ UNCHANGED <<ret, files, log, success>>
       ELSE IF ArxivAccepts(world.arxiv)
              THEN /\ files' = files \cup {"pdf"}
                   /\ success' = TRUE
                   /\ IF args.save_metadata
                      THEN /\ log' = log \o <<"req_arxiv_pdf", "write_pdf", "get_landing">>
                           /\ soup' = SoupOf(world)
                           /\ pc' = "chemrxiv"
                           /\ ret' = ret
                      ELSE /\ log' = log \o <<"req_arxiv_pdf", "write_pdf">>
                           /\ soup' = "None"
                           /\ pc' = "done"
                           /\ ret' = "True"
              ELSE /\ log' = log \o <<"req_arxiv_pdf">>
                   /\ soup' = "None"
                   /\ pc' = "chemrxiv"
                   /\ UNCHANGED <<ret, files, success>>

\* _write_metadata (lines 105-113): the sidecar is written or the error is
\* logged; the result says which.
WriteMetadata == {Eff("True", "json", <<>>), Eff("False", "none", <<>>)}

\* Lines 208-228: the ChemRxiv Open Engage item and its PDF asset.
ChemrxivStep ==
    /\ pc = "chemrxiv"
    /\ UNCHANGED notPdf
    /\ UNCHANGED <<err, args, api_keys, world, is_biorxiv, success, soup,
                   error, ELIFE_XML_INDEX>>
    /\ IF ~args.doiChem
       THEN pc' = "biorxiv" /\ UNCHANGED <<ret, files, log, metadata_written>>
       ELSE \E item \in {"none", "no_url", "url"} :
              IF item = "none"
              THEN /\ log' = log \o <<"req_chemrxiv_api">>
                   /\ pc' = "biorxiv"
                   /\ UNCHANGED <<ret, files, metadata_written>>
              ELSE \E m \in (IF args.save_metadata THEN WriteMetadata
                             ELSE {Eff("False", "none", <<>>)}) :
                   \E d \in (IF item = "url" THEN download_pdf_to_path
                             ELSE {Eff("False", "none", <<>>)}) :
                     /\ metadata_written' =
                          (IF args.save_metadata THEN m.result = "True"
                           ELSE metadata_written)
                     /\ files' = Written(Written(files, m), d)
                     /\ log' = log \o <<"req_chemrxiv_api">> \o WriteEntry(m.wrote)
                                   \o (IF item = "url"
                                       THEN Entries("download_pdf_to_path", d)
                                       ELSE <<>>)
                     /\ IF d.result = "True"
                        THEN pc' = "done" /\ ret' = "True"
                        ELSE pc' = "biorxiv" /\ ret' = ret

\* Lines 230-246: the unguarded GET of the DOI URL, then the direct
\* bioRxiv PDF endpoint.
BiorxivStep ==
    /\ pc = "biorxiv"
    /\ UNCHANGED notPdf
    /\ UNCHANGED <<args, api_keys, world, is_biorxiv, metadata_written, soup,
                   error, ELIFE_XML_INDEX>>
    /\ IF ~is_biorxiv
       THEN pc' = "landing" /\ UNCHANGED <<err, ret, files, log, success>>
       ELSE IF world.landing = "transport_error"
       THEN /\ log' = log \o <<"get_landing">>
            /\ pc' = "raised"
            /\ err' = "RequestException"
            /\ UNCHANGED <<ret, files, success>>
       ELSE \E d \in download_pdf_to_path :
              /\ log' = log \o <<"get_landing">> \o Entries("download_pdf_to_path", d)
              /\ files' = Written(files, d)
              /\ err' = err
              /\ IF d.result = "True"
                 THEN IF ~args.save_metadata
                      THEN pc' = "done" /\ ret' = "True" /\ success' = success
                      ELSE pc' = "landing" /\ ret' = ret /\ success' = TRUE
                 ELSE pc' = "landing" /\ ret' = ret /\ success' = success

\* Lines 248-296: the landing page, the sidecar, and the return when an
\* earlier step has set success.
LandingStep ==
    /\ pc = "landing"
    /\ UNCHANGED notPdf
    /\ UNCHANGED <<err, args, api_keys, world, is_biorxiv, success,
                   metadata_written, ELIFE_XML_INDEX>>
    /\ soup' = SoupOf(world)
    /\ error' = ErrorOf(world)
    /\ \E m \in (IF SoupOf(world) # "None" /\ args.save_metadata /\ ~metadata_written
                 THEN WriteMetadata ELSE {Eff("False", "none", <<>>)}) :
         /\ files' = Written(files, m)
         /\ log' = log \o <<"get_landing">> \o WriteEntry(m.wrote)
    /\ IF success
       THEN pc' = "done" /\ ret' = "True"
       ELSE pc' = "s3" /\ ret' = ret

\* A call of one of FALLBACKS, or no call, with the cache it leaves.
ElifeCalls(doiElife, index) ==
    {[name |-> "fallback_elife_xml", eff |-> x.eff, index |-> x.index] :
        x \in fallback_elife_xml(doiElife, index)}

WileyCalls(index) ==
    {[name |-> "fallback_wiley_api", eff |-> e, index |-> index] :
        e \in fallback_wiley_api}

ElsevierCalls(index) ==
    {[name |-> "fallback_elsevier_api", eff |-> e, index |-> index] :
        e \in fallback_elsevier_api}

NoCall(index) ==
    {[name |-> "none", eff |-> Eff("False", "none", <<>>), index |-> index]}

CallEntries(c) == IF c.name = "none" THEN <<>> ELSE Entries(c.name, c.eff)

BoolStr(b) == IF b THEN "True" ELSE "False"

\* Lines 298-312: the S3 strategy, for a bioRxiv URL with both AWS keys.
S3Step ==
    /\ pc = "s3"
    /\ UNCHANGED notPdf
    /\ UNCHANGED <<args, api_keys, world, is_biorxiv, metadata_written, soup,
                   error, ELIFE_XML_INDEX>>
    /\ IF is_biorxiv /\ S3Gate(api_keys)
       THEN \E e \in fallback_s3 :
              /\ log' = log \o Entries("fallback_s3", e)
              /\ files' = Written(files, e)
              /\ IF e.result = "raise"
                 THEN /\ pc' = "raised"
                      /\ err' = "Exception"
                      /\ UNCHANGED <<ret, success>>
                 ELSE /\ success' = (e.result = "True")
                      /\ err' = err
                      /\ IF e.result = "True"
                         THEN pc' = "done" /\ ret' = "True"
                         ELSE pc' = "bioc" /\ ret' = ret
       ELSE pc' = "bioc" /\ UNCHANGED <<err, ret, files, log, success>>

\* Lines 314-315: BioC-PMC, always, before any other fallback.
BiocStep ==
    /\ pc = "bioc"
    /\ UNCHANGED notPdf
    /\ LET e == fallback_bioc_pmc(world.pmc) IN
         /\ log' = log \o Entries("fallback_bioc_pmc", e)
         /\ files' = Written(files, e)
         /\ success' = (e.result = "True")
    /\ pc' = "publisher"
    /\ UNCHANGED <<err, ret, args, api_keys, world, is_biorxiv,
                   metadata_written, soup, error, ELIFE_XML_INDEX>>

\* Lines 317-329: eLife or Wiley, selected by the landing-page error text,
\* then the return when one of the fallbacks succeeded.
PublisherStep ==
    /\ pc = "publisher"
    /\ UNCHANGED notPdf
    /\ UNCHANGED <<args, api_keys, world, is_biorxiv, metadata_written, soup,
                   error>>
    /\ \E c \in (IF success THEN NoCall(ELIFE_XML_INDEX)
                 ELSE IF PublisherElife(error, args.doiElife)
                 THEN ElifeCalls(args.doiElife, ELIFE_XML_INDEX)
                 ELSE IF WileyOnError(error, api_keys)
                 THEN WileyCalls(ELIFE_XML_INDEX)
                 ELSE NoCall(ELIFE_XML_INDEX)) :
         /\ log' = log \o CallEntries(c)
         /\ files' = Written(files, c.eff)
         /\ ELIFE_XML_INDEX' = c.index
         /\ IF c.eff.result = "raise"
            THEN /\ pc' = "raised"
                 /\ err' = "HTTPError"
                 /\ UNCHANGED <<ret, success>>
            ELSE LET s == IF c.name = "none" THEN success
                          ELSE c.eff.result = "True" IN
                 /\ success' = s
                 /\ err' = err
                 /\ IF ReturnAfterFallbacks(s)
                    THEN pc' = "done" /\ ret' = "True"
                    ELSE pc' = "citation" /\ ret' = ret

\* Lines 361-363 and 384: the accepted body is written, success is not
\* assigned, and the function returns success.
CitationPdfReturn(s) == BoolStr(s)

\* Lines 331-343 and 361-365: the citation_pdf_url target.
CitationStep ==
    /\ pc = "citation"
    /\ UNCHANGED notPdf
    /\ UNCHANGED <<err, args, api_keys, world, is_biorxiv, success,
                   metadata_written, soup, error, ELIFE_XML_INDEX>>
    /\ IF soup = "tag"
       THEN IF world.cit = "pdf"
            THEN /\ log' = log \o <<"get_citation_pdf", "write_pdf">>
                 /\ files' = files \cup {"pdf"}
                 /\ pc' = "done"
                 /\ ret' = CitationPdfReturn(success)
            ELSE IF world.cit = "fail"
            THEN /\ log' = log \o <<"get_citation_pdf">>
                 /\ pc' = "done"
                 /\ ret' = BoolStr(success)
                 /\ files' = files
            ELSE /\ log' = log \o <<"get_citation_pdf">>
                 /\ pc' = "cit_fallback"
                 /\ UNCHANGED <<ret, files>>
       ELSE pc' = "no_tag" /\ UNCHANGED <<ret, files, log>>

\* Lines 345-360: the fallbacks after a body that is not a PDF.  The block
\* is inside the try of line 337, so an error of the eLife index fetch is
\* caught and success keeps the value BioC-PMC gave it.
CitFallbackStep ==
    /\ pc = "cit_fallback"
    /\ UNCHANGED notPdf
    /\ UNCHANGED <<err, args, api_keys, world, is_biorxiv, metadata_written,
                   soup, error>>
    /\ LET b == fallback_bioc_pmc(world.pmc) IN
       \E c \in (IF b.result = "True" THEN NoCall(ELIFE_XML_INDEX)
                 ELSE IF args.doiElife # "no"
                 THEN ElifeCalls(args.doiElife, ELIFE_XML_INDEX)
                 ELSE IF WileyAfterNonPdf(api_keys)
                 THEN WileyCalls(ELIFE_XML_INDEX)
                 ELSE IF ElsevierGate(api_keys)
                 THEN ElsevierCalls(ELIFE_XML_INDEX)
                 ELSE NoCall(ELIFE_XML_INDEX)) :
         LET s == IF c.name = "none" \/ c.eff.result = "raise"
                  THEN b.result = "True"
                  ELSE c.eff.result = "True" IN
         /\ log' = log \o Entries("fallback_bioc_pmc", b) \o CallEntries(c)
         /\ files' = Written(Written(files, b), c.eff)
         /\ ELIFE_XML_INDEX' = c.index
         /\ success' = s
         /\ pc' = "done"
         /\ ret' = BoolStr(s)

\* Lines 366-384: no usable citation_pdf_url; eLife by DOI, else Elsevier.
NoTagStep ==
    /\ pc = "no_tag"
    /\ UNCHANGED notPdf
    /\ UNCHANGED <<args, api_keys, world, is_biorxiv, metadata_written, soup,
                   error>>
    /\ \E c \in (IF args.doiElife # "no"
                 THEN ElifeCalls(args.doiElife, ELIFE_XML_INDEX)
                 ELSE IF ElsevierGate(api_keys)
                 THEN ElsevierCalls(ELIFE_XML_INDEX)
                 ELSE NoCall(ELIFE_XML_INDEX)) :
         /\ log' = log \o CallEntries(c)
         /\ files' = Written(files, c.eff)
         /\ ELIFE_XML_INDEX' = c.index
         /\ IF c.eff.result = "raise"
            THEN /\ pc' = "raised"
                 /\ err' = "HTTPError"
                 /\ UNCHANGED <<ret, success>>
            ELSE LET s == IF c.name = "none" THEN success
                          ELSE c.eff.result = "True" IN
                 /\ success' = s
                 /\ err' = err
                 /\ pc' = "done"
                 /\ ret' = BoolStr(s)

Next ==
    \/ Validate
    \/ LoadKeys
    \/ Resolve
    \/ ArxivStep
    \/ ChemrxivStep
    \/ BiorxivStep
    \/ LandingStep
    \/ S3Step
    \/ BiocStep
    \/ PublisherStep
    \/ CitationStep
    \/ CitFallbackStep
    \/ NoTagStep

Spec == Init /\ [][Next]_vars

----------------------------------------------------------------------------
(* Vocabulary of the properties.                                           *)

Artifacts == {"pdf", "xml"}

Logged(entry) == \E i \in 1..Len(log) : log[i] = entry

ArtifactWrites == {"write_pdf", "write_xml"}

ArtifactWritten == \E i \in 1..Len(log) : log[i] \in ArtifactWrites

\* The arguments pass the four checks of lines 135-145.
InputsValid == args.meta = "ok" /\ args.path \in {"ok", "wrong_suffix"}

WileyEntries == {"fallback_wiley_api", "req_wiley"}

ElsevierEntries == {"fallback_elsevier_api", "req_elsevier"}

\* Invocations of the four strategies that follow the landing page.
PublisherFallbacks == {"fallback_elife_xml", "fallback_wiley_api", "fallback_elsevier_api"}

\* Everything a retrieval step does, the landing-page fetch excluded.
RetrievalEntries ==
    {"req_arxiv_pdf", "req_chemrxiv_api", "download_pdf_to_path", "req_download",
     "fallback_s3", "req_biorxiv_api", "req_s3_list", "req_s3_probe", "req_s3_get",
     "fallback_bioc_pmc", "req_idconv", "req_bioc",
     "fallback_elife_xml", "req_github_tree", "req_elife_raw",
     "fallback_wiley_api", "req_wiley", "fallback_elsevier_api", "req_elsevier",
     "get_citation_pdf"}

NoApiKeys == pc \notin {"start", "load_keys"} /\ \A k \in KeyNames : ~HasValue(api_keys, k)

\* The landing page carries a citation_pdf_url whose target is a PDF.
OpenAccessPdf == world.landing = "tag" /\ world.cit = "pdf"

----------------------------------------------------------------------------
(* C1 *)

\* C1: a save_pdf call that passed validation and returned has returned
\* True if and only if it wrote a .pdf or .xml artifact.
C1_ReturnsTrueIffWritten ==
    pc = "done" => ((ret = "True") <=> ArtifactWritten)

(* C2 *)

\* C2: once input validation has passed, save_pdf never raises; every
\* failure of a request or strategy is tolerated and the call returns.
C2_NeverRaisesAfterValidation ==
    InputsValid => pc # "raised"

(* C3 *)

\* C3: when the bundle has no value for WILEY_TDM_API_TOKEN, fallback_wiley_api
\* is never invoked and no request to api.wiley.com is made.
C3_NoWileyWithoutToken ==
    ~HasValue(api_keys, "WILEY_TDM_API_TOKEN")
        => \A i \in 1..Len(log) : log[i] \notin WileyEntries

(* C4 *)

\* C4: fallback_elsevier_api is invoked only when ELSEVIER_TDM_API_KEY has a
\* value, and fallback_s3 only when both AWS keys have values.
C4_KeyGatedStrategies ==
    /\ (\E i \in 1..Len(log) : log[i] \in ElsevierEntries)
          => HasValue(api_keys, "ELSEVIER_TDM_API_KEY")
    /\ Logged("fallback_s3")
          => /\ HasValue(api_keys, "AWS_ACCESS_KEY_ID")
             /\ HasValue(api_keys, "AWS_SECRET_ACCESS_KEY")

(* C5 *)

C6_PmcXmlOnly_Original ==
    (pc = "done" /\ world.pmc = "ok" /\ NoApiKeys)
        => files \cap Artifacts = {"xml"}

\* C6 amended: the same, for the calls that reach the BioC-PMC step, i.e.
\* that no earlier direct step (arXiv, ChemRxiv, bioRxiv) has ended.
C6_PmcXmlOnly ==
    (pc = "done" /\ world.pmc = "ok" /\ NoApiKeys /\ Logged("fallback_bioc_pmc"))
        => files \cap Artifacts = {"xml"}

\* C6 witness: BioC-PMC wrote the XML in a call without keys.
C6_Witness ==
    /\ pc = "done" /\ world.pmc = "ok" /\ NoApiKeys
    /\ Logged("fallback_bioc_pmc") /\ Logged("write_xml")
    /\ ret = "True"

(* C7 *)

C8_ShortCircuit ==
    \A i, j \in 1..Len(log) :
        (i < j /\ log[i] \in ArtifactWrites) => log[j] \notin RetrievalEntries

(* C9 *)

\* C9 as stated: a fallback strategy (BioC-PMC, eLife, Wiley, Elsevier) is
\* invoked only after the citation_pdf_url target has been tried, or when
\* the landing page gave no such target.
C9_DirectBeforeFallbacks_Original ==
    \A j \in 1..Len(log) :
        log[j] \in (PublisherFallbacks \cup {"fallback_bioc_pmc"})
            => \/ soup \in {"None", "notag"}
               \/ \E i \in 1..(j - 1) : log[i] = "get_citation_pdf"

\* C9 amended: BioC-PMC always precedes the citation_pdf_url target; eLife,
\* Wiley and Elsevier are invoked only after the target has been tried and
\* was not a PDF, or when the landing page gave no such target.
C9_DirectBeforeFallbacks ==
    /\ \A j \in 1..Len(log) :
         log[j] \in PublisherFallbacks
             => \/ soup \in {"None", "notag"}
                \/ /\ world.cit # "pdf"
                   /\ \E i \in 1..(j - 1) : log[i] = "get_citation_pdf"
    /\ \A j \in 1..Len(log) :
         log[j] = "get_citation_pdf"
             => \E i \in 1..(j - 1) : log[i] = "fallback_bioc_pmc"

\* C9 witness: Elsevier was invoked after the citation_pdf_url target had
\* been fetched.
C9_Witness ==
    \E i, j \in 1..Len(log) :
        i < j /\ log[i] = "get_citation_pdf" /\ log[j] = "fallback_elsevier_api"

(* C10 *)

\* C10: a call with invalid arguments raises the error of the first failed
\* check before any network request and before any file is created.
C10_ValidationFirst ==
    (pc # "start" /\ ~InputsValid)
        => /\ pc = "raised"
           /\ log = <<>>
           /\ files = {}
           /\ (args.meta = "not_dict" => err = "TypeError")
           /\ (args.meta = "no_doi" => err = "KeyError")
           /\ (args.meta = "ok" /\ args.path = "not_str" => err = "TypeError")
           /\ (args.meta = "ok" /\ args.path = "no_parent" => err = "ValueError")

\* C10 witness: the parent directory is missing and ValueError was raised.
C10_Witness ==
    /\ pc = "raised" /\ err = "ValueError"
    /\ args.meta = "ok" /\ args.path = "no_parent"

(* C11 *)

\* C11: a call with a valid metadata dict and a filepath whose suffix is not
\* .pdf raises a validation error at once: no network request is made and no
\* file is written.
C11_WrongSuffixRejected ==
    (args.meta = "ok" /\ args.path = "wrong_suffix" /\ pc # "start")
        => /\ pc = "raised"
           /\ log = <<>>
           /\ files = {}

(* C12 *)

\* The arXiv direct fetch is about to run and cannot deliver a PDF: the
\* identifier cannot be extracted, the request fails, or the body does not
\* start with %PDF.
ArxivFetchFails ==
    /\ pc = "arxiv"
    /\ \/ args.doiArxiv = "nomatch"
       \/ args.doiArxiv = "match" /\ world.arxiv \in {"nonpdf", "error"}

\* C12: when the arXiv direct fetch gets a body that does not start with
\* %PDF, or its request fails, or the identifier cannot be extracted, the
\* arXiv step creates no file and save_pdf goes on to the next strategy
\* without returning.
C12_ArxivFailureFallsThrough ==
    [][ArxivFetchFails
         => /\ files' = files
            /\ pc' = "chemrxiv"
            /\ ret' = "unset"
            /\ success' = FALSE]_vars

\* C12 witness: the arXiv request was answered with a body that is not a
\* PDF, nothing was written and the call stands before the ChemRxiv step.
C12_Witness ==
    /\ pc = "chemrxiv"
    /\ args.doiArxiv = "match" /\ world.arxiv = "nonpdf"
    /\ Logged("req_arxiv_pdf")
    /\ files = {} /\ ret = "unset"

(* C13 *)

\* C13: metadata handling never gates the artifact outcome: once the arXiv
\* direct fetch has written its PDF, the call does not raise, and when it
\* has ended it has returned True, whatever the landing-page fetch and the
\* sidecar write did.
C13_MetadataNeverGates ==
    (args.doiArxiv = "match" /\ world.arxiv = "pdf" /\ Logged("req_arxiv_pdf"))
        => /\ pc # "raised"
           /\ (pc = "done" => ret = "True")

(* C18 *)

ResultEntries == {"ret_True", "ret_False", "raise"}

C19_OnlyValidatedContentWritten ==
    world.pmc = "not_xml" =>
        \A j \in 1..(Len(log) - 1) :
            log[j] = "req_bioc" => log[j + 1] # "write_xml"

(* C20 *)

\* The fallback strategies of FALLBACKS.
FallbackNames == {"fallback_s3", "fallback_bioc_pmc", "fallback_elife_xml",
                  "fallback_wiley_api", "fallback_elsevier_api"}

\* C20: within one save_pdf call each fallback strategy (S3, BioC-PMC,
\* eLife, Wiley, Elsevier) is invoked at most once.
C20_EachFallbackAtMostOnce ==
    \A f \in FallbackNames :
        Cardinality({j \in 1..Len(log) : log[j] = f}) <= 1

(* C21 *)

\* C21: when an Elsevier API key is present and every earlier step of the
\* chain failed to produce an artifact (the citation_pdf_url request raising
\* included), fallback_elsevier_api is invoked before save_pdf returns False.
C21_ElsevierBeforeFalse ==
    (/\ pc = "done" /\ ret = "False"
     /\ HasValue(api_keys, "ELSEVIER_TDM_API_KEY")
     /\ ~ArtifactWritten
     /\ Logged("get_citation_pdf"))
        => Logged("fallback_elsevier_api")

(* C25 *)

\* The strategies the claim names.
RetryingFallbacks == {"fallback_bioc_pmc", "fallback_elife_xml",
                      "fallback_elsevier_api", "fallback_s3"}

\* The log entry that ends the strategy invocation logged at index k.
EndOf(k) ==
    CHOOSE j \in (k + 1)..Len(log) :
        /\ log[j] \in ResultEntries
        /\ \A h \in (k + 1)..(j - 1) : log[h] \notin ResultEntries

\* C25: a network error inside a fallback strategy (BioC-PMC, eLife,
\* Elsevier, S3) is absorbed by the strategy: every invocation ends with
\* True or a logged False, never with an exception that leaves the strategy.
C25_StrategyNeverPropagates ==
    \A k \in 1..Len(log) :
        log[k] \in RetryingFallbacks => log[EndOf(k)] # "raise"

(* C28 *)

\* C28: within one save_pdf call the DOI landing page is fetched at most
\* once; a later step reuses the page of the first fetch.
C28_LandingFetchedAtMostOnce ==
    Cardinality({j \in 1..Len(log) : log[j] = "get_landing"}) <= 1

----------------------------------------------------------------------------
(* save_pdf_from_dump, lines 387-442 of pdf.py: runs of the batch driver   *)
(* over one dump and one output directory.                                 *)

\* Number of records of the dumps that are run.
MaxDump == 2

\* Number of runs over the same dump and directory.
MaxRuns == 2

\* A field of a record: the key is absent, the value is null, or the value
\* is a string (a sequence of characters).
Absent == <<"absent">>
Null == <<"null">>
Str(s) == <<"str", s>>
IsStr(v) == v[1] = "str"

\* Two DOIs that differ in one character and a third one.
DoiStrings == {<<"a", "/", "b">>, <<"a", "_", "b">>, <<"c", "/", "d">>}

TitleStrings == {<<"t">>}

\* The records of a dump, one JSON object per line.
Papers == [doi : {Absent, Null} \cup {Str(s) : s \in DoiStrings},
           title : {Absent} \cup {Str(s) : s \in TitleStrings}]

Dumps == UNION {[1..n -> Papers] : n \in 0..MaxDump}

\* Line 417: the accepted values of key_to_save.  The records carry no
\* date, so the runs use doi, title and a rejected value.
AcceptedKeys == {"doi", "title", "date"}
KeysToSave == {"doi", "title", "abstract"}

\* Line 432: str.replace("/", "_").
Replace(s) == [k \in 1..Len(s) |-> IF s[k] = "/" THEN "_" ELSE s[k]]

\* Line 429: "doi" not in paper.keys() or paper["doi"] is None.
NoDoi(paper) == paper.doi = Absent \/ paper.doi = Null

\* The existence test with the .xml half (lines 438-440) left out.
ExistsCheckPdfOnly(filename, d) == <<filename, "pdf">> \in d

\* Lines 435-440: pdf_file.exists(), then xml_file.exists().
ExistsCheck(filename, d) ==
    <<filename, "pdf">> \in d \/ <<filename, "xml">> \in d

\* What one save_pdf call leaves to its caller: it returns or raises, and
\* it has written <path>.pdf, <path>.xml or neither.
SavePdfOutcomes ==
    {[wrote |-> w, raised |-> FALSE] : w \in {"none", "pdf", "xml"}} \cup
    {[wrote |-> w, raised |-> TRUE] : w \in {"none", "pdf"}}

\* An entry of events: what the loop did with record i of run r, and
\* whether an artifact of the record was in the directory at that moment.
Event(r, k, ev, existed) == [run |-> r, i |-> k, ev |-> ev, existed |-> existed]

\* <key>.pdf or <key>.xml of a record is in the directory.
ArtifactOnDisk(paper, key, d) ==
    /\ key \in {"doi", "title"}
    /\ IsStr(paper[key])
    /\ \E sfx \in {"pdf", "xml"} : <<Replace(paper[key][2]), sfx>> \in d

InitDump ==
    /\ IdleBut("batch")
    /\ batch_pc = "start"
    /\ papers \in Dumps
    /\ key_to_save \in KeysToSave
    /\ disk = {}
    /\ idx = 0
    /\ run = 1
    /\ events = <<>>

\* Lines 407-423: the checks of the arguments, load_jsonl, load_api_keys.
BatchStart ==
    /\ batch_pc = "start"
    /\ UNCHANGED notBatch
    /\ IF key_to_save \notin AcceptedKeys
       THEN batch_pc' = "rejected" /\ idx' = idx
       ELSE batch_pc' = "loop" /\ idx' = 1
    /\ UNCHANGED <<papers, key_to_save, disk, run, events>>

\* Lines 426-442: one iteration of the loop.
BatchIteration ==
    /\ batch_pc = "loop"
    /\ idx <= Len(papers)
    /\ UNCHANGED notBatch
    /\ UNCHANGED <<papers, key_to_save, run>>
    /\ LET paper == papers[idx]
           existed == ArtifactOnDisk(paper, key_to_save, disk) IN
       IF NoDoi(paper)
       THEN \* line 430 formats paper['title'] into the warning
            IF paper.title = Absent
            THEN batch_pc' = "raised" /\ UNCHANGED <<disk, idx, events>>
            ELSE /\ events' = Append(events, Event(run, idx, "skip_no_doi", existed))
                 /\ idx' = idx + 1
                 /\ UNCHANGED <<batch_pc, disk>>
       ELSE IF ~IsStr(paper[key_to_save])
       THEN \* line 432: KeyError
            batch_pc' = "raised" /\ UNCHANGED <<disk, idx, events>>
       ELSE LET filename == Replace(paper[key_to_save][2]) IN
            IF ExistsCheck(filename, disk)
            THEN /\ events' = Append(events, Event(run, idx, "skip_exists", existed))
                 /\ idx' = idx + 1
                 /\ UNCHANGED <<batch_pc, disk>>
            ELSE \E o \in SavePdfOutcomes :
                   /\ events' = Append(events, Event(run, idx, "save_pdf", existed))
                   /\ disk' = IF o.wrote = "none" THEN disk
                              ELSE disk \cup {<<filename, o.wrote>>}
                   /\ IF o.raised
                      THEN batch_pc' = "raised" /\ idx' = idx
                      ELSE batch_pc' = batch_pc /\ idx' = idx + 1

\* The loop is exhausted and save_pdf_from_dump returns None.
BatchReturn ==
    /\ batch_pc = "loop"
    /\ idx > Len(papers)
    /\ batch_pc' = "finished"
    /\ UNCHANGED notBatch
    /\ UNCHANGED <<papers, key_to_save, disk, idx, run, events>>

\* The caller runs save_pdf_from_dump again over the same dump and directory.
BatchRerun ==
    /\ batch_pc \in {"finished", "raised"}
    /\ run < MaxRuns
    /\ run' = run + 1
    /\ batch_pc' = "start"
    /\ UNCHANGED notBatch
    /\ UNCHANGED <<papers, key_to_save, disk, idx, events>>

NextDump ==
    \/ BatchStart
    \/ BatchIteration
    \/ BatchReturn
    \/ BatchRerun

SpecDump == InitDump /\ [][NextDump]_vars

\* A run has ended.
BatchEnded == batch_pc \in {"finished", "raised"}

\* The invocations of save_pdf for record k in run r.
Invocations(r, k) ==
    {j \in 1..Len(events) :
        events[j].run = r /\ events[j].i = k /\ events[j].ev = "save_pdf"}

(* C14 *)

\* C14: save_pdf_from_dump is idempotent with respect to existing artifacts:
\* in a second run over the same dump and directory (as in every run) no
\* record whose <key>.pdf or <key>.xml exists when the loop reaches it has
\* save_pdf invoked, so no request is made for it.
C14_ExistingArtifactSkipped ==
    \A j \in 1..Len(events) :
        events[j].ev = "save_pdf" => ~events[j].existed

\* C14 witness: a record whose artifact the first run wrote was reached and
\* skipped by the second run.
C14_Witness ==
    \E j, k \in 1..Len(events) :
        /\ events[j].run = 1 /\ events[j].ev = "save_pdf"
        /\ events[k].run = 2 /\ events[k].ev = "skip_exists"
        /\ events[k].i = events[j].i
        /\ events[k].existed

(* C15 *)

\* C15: when a run has ended, save_pdf has been invoked at most once for
\* every record and exactly once for every record with a non-null doi whose
\* .pdf/.xml target does not exist; every such record is reached, whatever
\* happened at the earlier records.
C15_EveryRecordInvokedOnce ==
    BatchEnded =>
        \A k \in 1..Len(papers) :
            /\ Cardinality(Invocations(run, k)) <= 1
            /\ (~NoDoi(papers[k]) /\ ~ArtifactOnDisk(papers[k], key_to_save, disk))
                   => Cardinality(Invocations(run, k)) = 1

(* C16 *)

\* C16: a record without a 'doi' key or with a null doi is skipped without
\* raising, whatever other fields it has or lacks: no run ends in an
\* exception at such a record, and save_pdf is not invoked for it.
C16_NoDoiSkippedQuietly ==
    /\ (batch_pc = "raised" => ~NoDoi(papers[idx]))
    /\ \A j \in 1..Len(events) :
          events[j].ev = "save_pdf" => ~NoDoi(papers[events[j].i])

----------------------------------------------------------------------------
(* month_folder, lines 301-323 of fallbacks.py: one call.                  *)

\* The years of the posting dates that are run: a century year that is not
\* a leap year, one that is, a common year and a leap year.
Years == {1900, 2000, 2023, 2024}

\* The answer of api.biorxiv.org/details: an error, or a collection whose
\* first entry carries the date string YYYY-MM-DD.
Responses ==
    {[ok |-> FALSE, year |-> 0, month |-> 0, day |-> 0]} \cup
    {[ok |-> TRUE, year |-> y, month |-> m, day |-> dd] :
        y \in Years, m \in 1..12, dd \in 1..31}

\* The leap-year rule without the century exception.
isleap_every_fourth(year) == year % 4 = 0

\* calendar.isleap.
isleap(year) == year % 4 = 0 /\ (year % 100 # 0 \/ year % 400 = 0)

\* calendar.mdays, from January.
mdays == <<31, 28, 31, 30, 31, 30, 31, 31, 30, 31, 30, 31>>

\* calendar.monthrange(year, month)[1]: the number of days of the month.
monthrange(year, month) ==
    mdays[month] + (IF month = 2 /\ isleap(year) THEN 1 ELSE 0)

\* datetime.date.fromisoformat accepts the days the month has.
fromisoformat_ok(r) == r.day <= monthrange(r.year, r.month)

\* date + datetime.timedelta(days=1).
AddOneDay(date) ==
    IF date.day < monthrange(date.year, date.month)
    THEN [year |-> date.year, month |-> date.month, day |-> date.day + 1]
    ELSE IF date.month < 12
    THEN [year |-> date.year, month |-> date.month + 1, day |-> 1]
    ELSE [year |-> date.year + 1, month |-> 1, day |-> 1]

\* calendar.month_name, what %B prints.
month_name == <<"January", "February", "March", "April", "May", "June", "July",
               "August", "September", "October", "November", "December">>

\* date.strftime("%B_%Y"): the month name and the year.
strftime(date) == [B |-> month_name[date.month], Y |-> date.year]

\* Lines 319-323: the date, moved on by a day when it is the last of its
\* month, formatted.
month_folder(date) ==
    LET last_day == monthrange(date.year, date.month) IN
    strftime(IF date.day = last_day THEN AddOneDay(date) ELSE date)

InitMonth ==
    /\ IdleBut("month")
    /\ month_pc = "call"
    /\ resp \in Responses
    /\ folder = "none"

\* Lines 313-317: the request fails, or the date string does not parse.
MonthFolderRaises ==
    /\ month_pc = "call"
    /\ IF resp.ok THEN ~fromisoformat_ok(resp) ELSE TRUE
    /\ month_pc' = "raised"
    /\ UNCHANGED <<resp, folder>>
    /\ UNCHANGED notMonth

\* Lines 313-323: the call returns the folder name.
MonthFolderReturns ==
    /\ month_pc = "call"
    /\ IF resp.ok THEN fromisoformat_ok(resp) ELSE FALSE
    /\ folder' = month_folder([year |-> resp.year, month |-> resp.month,
                               day |-> resp.day])
    /\ month_pc' = "returned"
    /\ UNCHANGED resp
    /\ UNCHANGED notMonth

NextMonth ==
    \/ MonthFolderRaises
    \/ MonthFolderReturns

SpecMonth == InitMonth /\ [][NextMonth]_vars

\* The Gregorian calendar: the number of days of a month.
DaysInMonth(y, m) ==
    IF m \in {4, 6, 9, 11} THEN 30
    ELSE IF m # 2 THEN 31
    ELSE IF y % 400 = 0 THEN 29
    ELSE IF y % 100 = 0 THEN 28
    ELSE IF y % 4 = 0 THEN 29
    ELSE 28

(* C17 *)

\* C17: month_folder maps a posting date to <MonthName>_<Year> of the date's
\* own month, except that the last calendar day of a month maps to the
\* following month, 28/29 February in common and leap years included, and
\* 31 December maps to January of the next year.
C17_MonthFolderRollover ==
    month_pc = "returned" =>
        folder =
            IF resp.day < DaysInMonth(resp.year, resp.month)
            THEN [B |-> month_name[resp.month], Y |-> resp.year]
            ELSE IF resp.month = 12
            THEN [B |-> "January", Y |-> resp.year + 1]
            ELSE [B |-> month_name[resp.month + 1], Y |-> resp.year]

\* C17 witness: 28 February of the century year 1900, which is not a leap
\* year, was mapped to March 1900.
C17_Witness ==
    /\ month_pc = "returned"
    /\ resp.year = 1900 /\ resp.month = 2 /\ resp.day = 28
    /\ folder = [B |-> "March", Y |-> 1900]

----------------------------------------------------------------------------
(* get_elife_xml_index, lines 259-298 of fallbacks.py, called by several   *)
(* threads of one process (save_pdf is called from worker threads, and     *)
(* fallback_elife_xml calls get_elife_xml_index without a lock).  The       *)
(* calls interleave statement by statement; the sort loop of lines 296-297 *)
(* is taken as one step.                                                   *)

\* Number of calls, each in a thread of its own.
NumCallers == 2

\* Number of files the tree lists at most.
MaxTree == 3

Callers == 1..NumCallers

\* Article numbers and version numbers of the files articles/elife-N-vV.xml.
Articles == 1..2

Versions == 1..2

\* The answers of the tree API: files in any order, no path twice.
Trees ==
    {t \in UNION {[1..n -> Articles \X Versions] : n \in 0..MaxTree} :
        \A a, b \in DOMAIN t : a # b => t[a] # t[b]}

\* ELIFE_XML_INDEX = None (line 20).
NoIndex == <<>>

\* ELIFE_XML_INDEX = {} (line 275): no article has a list.
EmptyIndex == [a \in Articles |-> <<>>]

\* list.sort(key=lambda x: x[0]) of line 297.
SortByVersion(l) == SortSeq(l, LAMBDA x, y : x < y)

\* The versions the tree lists for article a, in the order of the tree.
VersionsOf(t, a) ==
    LET sel == SelectSeq(t, LAMBDA e : e[1] = a)
    IN  [k \in 1..Len(sel) |-> sel[k][2]]

InitElife ==
    /\ IdleBut("elife")
    /\ index_pc = [c \in Callers |-> "called"]
    /\ xml_index = NoIndex
    /\ tree \in Trees
    /\ item_no = [c \in Callers |-> 0]
    /\ returned = [c \in Callers |-> NoIndex]

\* Line 273: if ELIFE_XML_INDEX is None.
IndexTest(c) ==
    /\ index_pc[c] = "called"
    /\ index_pc' = [index_pc EXCEPT ![c] = IF xml_index = NoIndex THEN "reset"
                                            ELSE "return"]
    /\ UNCHANGED <<xml_index, tree, item_no, returned, notElife>>

\* Line 275: ELIFE_XML_INDEX = {}.
IndexReset(c) ==
    /\ index_pc[c] = "reset"
    /\ xml_index' = EmptyIndex
    /\ index_pc' = [index_pc EXCEPT ![c] = "fetch"]
    /\ UNCHANGED <<tree, item_no, returned, notElife>>

\* Lines 278-281: the tree request; raise_for_status and the transport
\* errors of requests.get leave the function.
IndexFetch(c) ==
    /\ index_pc[c] = "fetch"
    /\ \E ok \in BOOLEAN :
        index_pc' = [index_pc EXCEPT ![c] = IF ok THEN "items" ELSE "raised"]
    /\ item_no' = [item_no EXCEPT ![c] = 1]
    /\ UNCHANGED <<xml_index, tree, returned, notElife>>

\* Lines 284-294: one pass of the loop over the items; setdefault and
\* append act on the object the global is bound to at that moment.
IndexAppend(c) ==
    /\ index_pc[c] = "items"
    /\ IF item_no[c] <= Len(tree)
       THEN /\ xml_index' = [xml_index EXCEPT ![tree[item_no[c]][1]] =
                                Append(@, tree[item_no[c]][2])]
            /\ item_no' = [item_no EXCEPT ![c] = @ + 1]
            /\ UNCHANGED index_pc
       ELSE /\ index_pc' = [index_pc EXCEPT ![c] = "sort"]
            /\ UNCHANGED <<xml_index, item_no>>
    /\ UNCHANGED <<tree, returned, notElife>>

\* Lines 296-297: every list is sorted by version.
IndexSort(c) ==
    /\ index_pc[c] = "sort"
    /\ xml_index' = [a \in Articles |-> SortByVersion(xml_index[a])]
    /\ index_pc' = [index_pc EXCEPT ![c] = "return"]
    /\ UNCHANGED <<tree, item_no, returned, notElife>>

\* Line 298: return ELIFE_XML_INDEX; the caller looks its article up in
\* the object as it is then (line 237).
IndexReturn(c) ==
    /\ index_pc[c] = "return"
    /\ returned' = [returned EXCEPT ![c] = xml_index]
    /\ index_pc' = [index_pc EXCEPT ![c] = "returned"]
    /\ UNCHANGED <<xml_index, tree, item_no, notElife>>

NextElife ==
    \E c \in Callers :
        \/ IndexTest(c)
        \/ IndexReset(c)
        \/ IndexFetch(c)
        \/ IndexAppend(c)
        \/ IndexSort(c)
        \/ IndexReturn(c)

SpecElife == InitElife /\ [][NextElife]_vars

\* The index of a tree: its files grouped by article, sorted by version.
CompleteIndex(t) == [a \in Articles |-> SortByVersion(VersionsOf(t, a))]

(* C22 *)

\* C22: over any interleaving of get_elife_xml_index calls, every call that
\* returns returns the completely built index of the tree: never an empty
\* one left by a failed fetch, never one under construction.
C22_ReturnedIndexComplete ==
    \A c \in Callers :
        index_pc[c] = "returned" => returned[c] = CompleteIndex(tree)

----------------------------------------------------------------------------
(* fallback_wiley_api, lines 27-91 of fallbacks.py, statement by           *)
(* statement: trace records each request, what it answered, the write of   *)
(* the PDF and each time.sleep, in program order.                          *)

\* Largest value of the argument max_attempts that is run.
MaxAttemptsArg == 3

\* What one request to api.wiley.com ends with: a body that starts with
\* %PDF, another body, or an exception (transport error, or the HTTPError
\* of raise_for_status).
WileyAnswers == {"pdf", "nonpdf", "error"}

\* The loop test of line 58 with the bound included.
WhileTestInclusive(a, m) == a <= m

\* Line 58: while attempt < max_attempts.
WhileTest(a, m) == a < m

\* Line 77: the 20 seconds are slept when another attempt follows.
SleepBeforeRetry(a, m) == a < m - 1

InitWiley ==
    /\ IdleBut("wiley")
    /\ wiley_pc = "while"
    /\ max_attempts_arg \in 0..MaxAttemptsArg
    /\ wiley_attempt = 0
    /\ wiley_success = FALSE
    /\ trace = <<>>
    /\ wiley_ret = "unset"

\* Line 58.
WileyWhile ==
    /\ wiley_pc = "while"
    /\ wiley_pc' = IF WhileTest(wiley_attempt, max_attempts_arg) THEN "request"
                   ELSE "final"
    /\ UNCHANGED <<max_attempts_arg, wiley_attempt, wiley_success, trace,
                   wiley_ret, notWiley>>

\* Lines 60-67: the request, raise_for_status and the test of the first
\* four bytes; a body that is no PDF is logged and the try block ends.
WileyRequest ==
    /\ wiley_pc = "request"
    /\ \E answer \in WileyAnswers :
        /\ trace' = trace \o <<"request", answer>>
        /\ wiley_pc' = IF answer = "pdf" THEN "write"
                       ELSE IF answer = "nonpdf" THEN "increment"
                       ELSE "except"
    /\ UNCHANGED <<max_attempts_arg, wiley_attempt, wiley_success, wiley_ret,
                   notWiley>>

\* Lines 69-75: write the body, success = True, break.
WileyWrite ==
    /\ wiley_pc = "write"
    /\ trace' = Append(trace, "write_pdf")
    /\ wiley_success' = TRUE
    /\ wiley_pc' = "final"
    /\ UNCHANGED <<max_attempts_arg, wiley_attempt, wiley_ret, notWiley>>

\* Lines 76-82: the except block.
WileyExcept ==
    /\ wiley_pc = "except"
    /\ trace' = IF SleepBeforeRetry(wiley_attempt, max_attempts_arg)
                THEN Append(trace, "sleep_20") ELSE trace
    /\ wiley_pc' = "increment"
    /\ UNCHANGED <<max_attempts_arg, wiley_attempt, wiley_success, wiley_ret,
                   notWiley>>

\* Line 84: attempt += 1.
WileyIncrement ==
    /\ wiley_pc = "increment"
    /\ wiley_attempt' = wiley_attempt + 1
    /\ wiley_pc' = "while"
    /\ UNCHANGED <<max_attempts_arg, wiley_success, trace, wiley_ret, notWiley>>

\* Lines 87-90: the mandatory delay.
WileyFinalDelay ==
    /\ wiley_pc = "final"
    /\ trace' = Append(trace, "sleep_10")
    /\ wiley_pc' = "return"
    /\ UNCHANGED <<max_attempts_arg, wiley_attempt, wiley_success, wiley_ret,
                   notWiley>>

\* Line 91: return success.
WileyReturn ==
    /\ wiley_pc = "return"
    /\ wiley_ret' = IF wiley_success THEN "True" ELSE "False"
    /\ wiley_pc' = "done"
    /\ UNCHANGED <<max_attempts_arg, wiley_attempt, wiley_success, trace,
                   notWiley>>

NextWiley ==
    \/ WileyWhile
    \/ WileyRequest
    \/ WileyWrite
    \/ WileyExcept
    \/ WileyIncrement
    \/ WileyFinalDelay
    \/ WileyReturn

SpecWiley == InitWiley /\ [][NextWiley]_vars

\* The call is one thread of control: a step that can be taken is taken.
SpecWileyLive == SpecWiley /\ WF_vars(NextWiley)

\* The positions of an entry in the trace.
At(entry) == {k \in 1..Len(trace) : trace[k] = entry}

(* C23 *)

\* C23: the inter-attempt delay separates every pair of consecutive
\* requests of fallback_wiley_api, whether the earlier one failed by an
\* exception or HTTP error or by a body that is no PDF.
C23_DelayBetweenAttempts ==
    \A a, b \in At("request") :
        a < b => \E k \in At("sleep_20") : a < k /\ k < b

(* C24 *)

\* C24: fallback_wiley_api terminates; when it has returned it has made at
\* most max_attempts requests, none after an answer that starts with %PDF,
\* has slept the final delay exactly once, as the last thing before
\* returning, and has returned a boolean.
C24_BoundedAttemptsOneFinalDelay ==
    /\ <>(wiley_pc = "done")
    /\ [](wiley_pc = "done" =>
            /\ Cardinality(At("request")) <= max_attempts_arg
            /\ \A p \in At("pdf") : \A q \in At("request") : q < p
            /\ Cardinality(At("sleep_10")) = 1
            /\ trace[Len(trace)] = "sleep_10"
            /\ wiley_ret \in {"True", "False"}
            /\ (wiley_ret = "True") <=> (At("pdf") # {}))

\* C24 witness: a call with the default max_attempts that used up its
\* attempts, one on a body that is no PDF and one on an exception, and
\* returned False after the final delay.
C24_Witness ==
    /\ wiley_pc = "done" /\ wiley_ret = "False"
    /\ max_attempts_arg = max_attempts
    /\ Cardinality(At("request")) = max_attempts
    /\ At("nonpdf") # {} /\ At("error") # {}
    /\ trace[Len(trace)] = "sleep_10"

----------------------------------------------------------------------------
(* fallback_s3, lines 411-452 of fallbacks.py: the scan of the month's     *)
(* archives.  The main thread submits one find_meca_for_doi probe per key, *)
(* consumes the futures as they complete, cancels and leaves at the first  *)
(* match; the worker threads of the pool start and finish probes on their  *)
(* own.  A future is pending, running, finished (true, false, raised) or   *)
(* cancelled.                                                              *)

\* Number of .meca keys list_meca_keys returns at most.
MaxKeys == 4

\* Largest value of the argument workers that is run.
MaxWorkersArg == 2

\* ThreadPoolExecutor(max_workers=32) of line 413.
max_workers == 32

\* How a probe ends: find_meca_for_doi returns True or False, or raises
\* (the ZipFile and manifest reads of lines 374-375 are not guarded).
ProbeResults == {"true", "false", "raised"}

Finished == {k \in DOMAIN futures : futures[k] \in ProbeResults}

Running == {k \in DOMAIN futures : futures[k] = "running"}

\* A loop of lines 430-431 that cancels nothing.
CancelNothing(state) == state

\* Future.cancel(): a pending future becomes cancelled, a running or
\* finished one is left as it is.
Cancel(state) == IF state = "pending" THEN "cancelled" ELSE state

\* After lines 414-417: a non-empty list of keys, one pending future each.
InitS3 ==
    /\ IdleBut("s3")
    /\ s3_pc = "scan"
    /\ workers \in 1..MaxWorkersArg
    /\ \E n \in 1..MaxKeys : futures = [k \in 1..n |-> "pending"]
    /\ seen = {}
    /\ target = 0
    /\ cancel_no = 0
    /\ s3_files = {}
    /\ s3_ret = "unset"

\* A worker thread of the pool takes a pending work item; the pool has
\* max_workers threads.
ProbeStart(k) ==
    /\ futures[k] = "pending"
    /\ Cardinality(Running) < max_workers
    /\ futures' = [futures EXCEPT ![k] = "running"]
    /\ UNCHANGED <<s3_pc, workers, seen, target, cancel_no, s3_files, s3_ret,
                   notS3>>

\* find_meca_for_doi returns or raises in its worker thread.
ProbeFinish(k) ==
    /\ futures[k] = "running"
    /\ \E result \in ProbeResults : futures' = [futures EXCEPT ![k] = result]
    /\ UNCHANGED <<s3_pc, workers, seen, target, cancel_no, s3_files, s3_ret,
                   notS3>>

\* Lines 419-433: one pass of the loop over as_completed(futures), which
\* yields a finished future not yet yielded and ends when all were.
ScanNext ==
    /\ s3_pc = "scan"
    /\ IF seen = DOMAIN futures
       THEN /\ s3_pc' = "shutdown"
            /\ UNCHANGED <<seen, target, cancel_no>>
       ELSE \E future \in Finished \ seen :
            /\ seen' = seen \cup {future}
            /\ IF futures[future] = "true"
               THEN /\ target' = future
                    /\ cancel_no' = 1
                    /\ s3_pc' = "cancel"
               ELSE UNCHANGED <<target, cancel_no, s3_pc>>
    /\ UNCHANGED <<workers, futures, s3_files, s3_ret, notS3>>

\* Lines 430-432: for fut in futures: fut.cancel(), then break.
CancelNext ==
    /\ s3_pc = "cancel"
    /\ IF cancel_no <= Len(futures)
       THEN /\ futures' = [futures EXCEPT ![cancel_no] = Cancel(@)]
            /\ cancel_no' = cancel_no + 1
            /\ UNCHANGED s3_pc
       ELSE /\ s3_pc' = "shutdown"
            /\ UNCHANGED <<futures, cancel_no>>
    /\ UNCHANGED <<workers, seen, target, s3_files, s3_ret, notS3>>

\* Lines 435-438: executor.shutdown(wait=False), then the test of target.
Shutdown ==
    /\ s3_pc = "shutdown"
    /\ IF target = 0
       THEN s3_pc' = "done" /\ s3_ret' = "False"
       ELSE s3_pc' = "download" /\ UNCHANGED s3_ret
    /\ UNCHANGED <<workers, futures, seen, target, cancel_no, s3_files, notS3>>

\* Lines 441-452: the archive is fetched and opened (neither is guarded)
\* and its first PDF, if it has one, is moved to the output path.
Download ==
    /\ s3_pc = "download"
    /\ \/ s3_pc' = "raised" /\ UNCHANGED <<s3_ret, s3_files>>
       \/ s3_pc' = "done" /\ s3_ret' = "True" /\ s3_files' = {"pdf"}
       \/ s3_pc' = "done" /\ s3_ret' = "False" /\ UNCHANGED s3_files
    /\ UNCHANGED <<workers, futures, seen, target, cancel_no, notS3>>

NextS3 ==
    \/ \E k \in DOMAIN futures : ProbeStart(k)
    \/ \E k \in DOMAIN futures : ProbeFinish(k)
    \/ ScanNext
    \/ CancelNext
    \/ Shutdown
    \/ Download

SpecS3 == InitS3 /\ [][NextS3]_vars

\* A worker starts the probe of key k in this step.
Starts(k) == futures[k] = "pending" /\ futures'[k] = "running"

\* The main thread has left the scan with a match and is past the loop
\* that cancels the futures.
CancelDone == target # 0 /\ s3_pc \in {"shutdown", "download", "done", "raised"}

\* The scan loop consumes a future that raised in this step.
SeesRaised == \E k \in seen' \ seen : futures[k] = "raised"

(* C26 *)

\* C26 as stated: once a probe has reported a match, no probe that had not
\* yet started is started.
C26_NoStartAfterMatch_Original ==
    [][(\E m \in DOMAIN futures : futures[m] = "true")
            => \A k \in DOMAIN futures : ~Starts(k)]_vars

\* C26: once the scan loop has consumed a match and cancelled the futures,
\* no probe is started; a probe that raised is consumed as a non-match and
\* the scan goes on; fallback_s3 returns False and writes nothing when no
\* probe matched.
C26_NoStartAfterCancel ==
    [][/\ CancelDone => \A k \in DOMAIN futures : ~Starts(k)
       /\ SeesRaised => s3_pc' = "scan" /\ target' = target
       /\ (s3_pc' = "done" /\ \A k \in DOMAIN futures : futures'[k] \in {"false", "raised"})
            => s3_ret' = "False" /\ s3_files' = {}]_vars

\* C26 witness: fallback_s3 has returned after a match while a probe is
\* still in flight, a pending probe was cancelled and a probe that raised
\* had been consumed before the match.
C26_Witness ==
    /\ s3_pc = "done" /\ target # 0
    /\ Running # {}
    /\ \E k \in DOMAIN futures : futures[k] = "cancelled"
    /\ \E k \in seen : futures[k] = "raised"

(* C27 *)

\* C27: the number of probes running at the same time never exceeds the
\* argument workers.
C27_RunningWithinWorkers == Cardinality(Running) <= workers

----------------------------------------------------------------------------
(* paperscraper/xrxiv/xrxiv_api.py: XRXivApi.get_papers (lines 90-152)     *)
(* and call_api (75-88) under its wrapper retry_multi (18-42).  The        *)
(* except HTTPError branch of retry_multi names urllib.error.HTTPError,    *)
(* which requests.get never raises, so num_retries stays 0 and the test    *)
(* of line 26 is always true.                                              *)

\* Largest value of self.max_retries and of the argument max_retries.
MaxRetries == 2

\* Largest number of pages of a date range.
MaxPages == 2

\* Requests after which a run is cut off.
MaxRequests == 6

\* What one request ends with: a page of results (status ok), the answer
\* that no more posts are found, a Timeout, a ConnectionError, or a body
\* that .json() or the subscripts of line 130 cannot read.
XrxivAnswers(c, p) ==
    (IF c < p THEN {"ok"} ELSE {"end"}) \cup {"timeout", "conn_error", "bad_json"}

InitXrxiv ==
    /\ IdleBut("xrxiv")
    /\ xr_pc = "while"
    /\ api_max_retries \in 1..MaxRetries
    /\ papers_max_retries \in 1..MaxRetries
    /\ pages \in 0..MaxPages
    /\ do_loop = TRUE
    /\ cursor = 0
    /\ xr_attempt = 0
    /\ call_requests = 0
    /\ cursor_calls = 0
    /\ total_requests = 0

\* Line 125: while do_loop; the generator ends when the loop is left.
GetPapersWhile ==
    /\ xr_pc = "while"
    /\ IF do_loop THEN xr_pc' = "for" /\ xr_attempt' = 0
       ELSE xr_pc' = "done" /\ UNCHANGED xr_attempt
    /\ UNCHANGED <<api_max_retries, papers_max_retries, pages, do_loop, cursor,
                   call_requests, cursor_calls, total_requests, notXrxiv>>

\* Line 127: for attempt in range(max_retries), and the call of line 129.
GetPapersFor ==
    /\ xr_pc = "for"
    /\ IF xr_attempt < papers_max_retries
       THEN /\ xr_pc' = "call_api"
            /\ call_requests' = 0
            /\ cursor_calls' = cursor_calls + 1
       ELSE /\ xr_pc' = "while"
            /\ UNCHANGED <<call_requests, cursor_calls>>
    /\ UNCHANGED <<api_max_retries, papers_max_retries, pages, do_loop, cursor,
                   xr_attempt, total_requests, notXrxiv>>

\* One pass of the loop of retry_multi (lines 26-32) around call_api
\* (77-88), and what get_papers does with what comes out (130-150).
CallApi ==
    /\ xr_pc = "call_api"
    /\ total_requests < MaxRequests
    /\ total_requests' = total_requests + 1
    /\ call_requests' = call_requests + 1
    /\ \E answer \in XrxivAnswers(cursor, pages) :
        IF answer = "timeout"
        THEN \* call_api returns None; lines 29-31: sleep and continue
             UNCHANGED <<xr_pc, do_loop, cursor, xr_attempt, cursor_calls>>
        ELSE IF answer = "ok"
        THEN \* lines 130-141: next cursor, yield the papers, break
             /\ do_loop' = TRUE
             /\ cursor' = cursor + 1
             /\ cursor_calls' = 0
             /\ xr_pc' = "while"
             /\ UNCHANGED xr_attempt
        ELSE IF answer = "end"
        THEN \* line 130 sets do_loop to False; nothing leaves the for loop
             /\ do_loop' = FALSE
             /\ xr_attempt' = xr_attempt + 1
             /\ xr_pc' = "for"
             /\ UNCHANGED <<cursor, cursor_calls>>
        ELSE \* lines 142-149: the error is logged, the next attempt follows
             /\ xr_attempt' = xr_attempt + 1
             /\ xr_pc' = "for"
             /\ UNCHANGED <<do_loop, cursor, cursor_calls>>
    /\ UNCHANGED <<api_max_retries, papers_max_retries, pages, notXrxiv>>

NextXrxiv ==
    \/ GetPapersWhile
    \/ GetPapersFor
    \/ CallApi

SpecXrxiv == InitXrxiv /\ [][NextXrxiv]_vars

(* C29 *)

\* C29: get_papers gives up: one call_api call sends at most max_retries
\* retries after its first request, and get_papers makes at most
\* max_retries call_api attempts for one cursor.
C29_RetriesBounded ==
    /\ call_requests <= api_max_retries + 1
    /\ cursor_calls <= papers_max_retries

----------------------------------------------------------------------------
(* self_citations_paper (citations/self_citations.py, lines 96-126) over a *)
(* list of identifiers, under the decorator retry_with_exponential_backoff *)
(* (async_utils.py, lines 61-125).  asyncio.gather starts one              *)
(* _process_single task per identifier, each sending its request, and      *)
(* re-raises the first exception of a task; leaving the async with block   *)
(* closes the client under the tasks still in flight.                      *)

\* Number of identifiers of the list at most.
MaxIds == 3

\* retry_with_exponential_backoff(max_retries=4, ...) of line 97.
cite_max_retries == 4

\* After the call: the first pass of the loop of line 96 is about to run.
InitCite ==
    /\ IdleBut("cite")
    /\ cite_pc = "attempt"
    /\ cite_attempt = 1
    /\ \E n \in 1..MaxIds :
        /\ tasks = [d \in 1..n |-> "none"]
        /\ fetches = [d \in 1..n |-> 0]
    /\ succeeded = {}

\* async_utils.py 96-99 and self_citations.py 112-117: the wrapped
\* function is called; it builds a task for every identifier of the list
\* and gathers them, so a request is sent for every identifier.
RunBatch ==
    /\ cite_pc = "attempt"
    /\ tasks' = [d \in DOMAIN tasks |-> "in_flight"]
    /\ fetches' = [d \in DOMAIN fetches |-> fetches[d] + 1]
    /\ cite_pc' = "gather"
    /\ UNCHANGED <<cite_attempt, succeeded, notCite>>

\* _fetch_citation_data returns for one identifier (lines 39-44).
TaskSucceeds(d) ==
    /\ cite_pc = "gather"
    /\ tasks[d] = "in_flight"
    /\ tasks' = [tasks EXCEPT ![d] = "ok"]
    /\ succeeded' = succeeded \cup {d}
    /\ UNCHANGED <<cite_pc, cite_attempt, fetches, notCite>>

\* A task raises HTTPStatusError 429 or a transport error: gather re-raises
\* it, the wrapper (lines 100-123) sleeps and runs the next pass, or
\* raises RuntimeError after the last one.
TaskFailsTransient(d) ==
    /\ cite_pc = "gather"
    /\ tasks[d] = "in_flight"
    /\ tasks' = [k \in DOMAIN tasks |-> "none"]
    /\ IF cite_attempt = cite_max_retries
       THEN cite_pc' = "raised" /\ UNCHANGED cite_attempt
       ELSE cite_pc' = "attempt" /\ cite_attempt' = cite_attempt + 1
    /\ UNCHANGED <<fetches, succeeded, notCite>>

\* A task raises HTTPStatusError with another status: re-raised (line 103).
TaskFailsOther(d) ==
    /\ cite_pc = "gather"
    /\ tasks[d] = "in_flight"
    /\ tasks' = [k \in DOMAIN tasks |-> "none"]
    /\ cite_pc' = "raised"
    /\ UNCHANGED <<cite_attempt, fetches, succeeded, notCite>>

\* Every task has returned: gather returns the results (lines 117-126).
GatherReturns ==
    /\ cite_pc = "gather"
    /\ \A d \in DOMAIN tasks : tasks[d] = "ok"
    /\ cite_pc' = "done"
    /\ UNCHANGED <<cite_attempt, tasks, fetches, succeeded, notCite>>

NextCite ==
    \/ RunBatch
    \/ \E d \in DOMAIN tasks : TaskSucceeds(d)
    \/ \E d \in DOMAIN tasks : TaskFailsTransient(d)
    \/ \E d \in DOMAIN tasks : TaskFailsOther(d)
    \/ GatherReturns

SpecCite == InitCite /\ [][NextCite]_vars

(* C30 *)

\* C30: each identifier's fetch is retried on its own: an identifier whose
\* fetch has succeeded is not fetched again when another identifier's
\* fetch fails with 429 or a transport error.
C30_SucceededNotRefetched ==
    [][\A d \in succeeded : fetches'[d] = fetches[d]]_vars

====
